---------------------------- MODULE Spec2Model ----------------------------
(***************************************************************************)
(* CareWave ERP, accounting module (app/routers/accounting.py and          *)
(* app/models/accounting.py): chart of accounts, journal entries with      *)
(* their two lines, and the ledger / trial balance derived from them.      *)
(*                                                                         *)
(* Texts (form fields) are sequences of one-character strings, so that     *)
(* strip(), replace() and the parsers act on them as the code does.        *)
(* Decimal amounts are integers counting 10^-DecScale (1.5 is 1500); a     *)
(* stored Numeric(14, 2) amount is such an integer rounded to hundredths.  *)
(* Dates are <<year, month, day>>.                                         *)
(***************************************************************************)
EXTENDS Integers, Sequences, FiniteSets, TLC

VARIABLES
    db,          \* the committed rows of the relational store, one set per table
    fkEnforced,  \* whether the store enforces the declared foreign keys
    last,        \* the request handled last and the response it got
    sess         \* per worker: the request in progress and its session

vars == <<db, fkEnforced, last, sess>>

-----------------------------------------------------------------------------
(* Bounds of the model.                                                    *)

MaxAccounts == 2
MaxEntries == 2
MaxBudgets == 1
MaxInvestors == 1

\* Journal entries of the specifications that post expenses month by month.
MaxMonths == 4

-----------------------------------------------------------------------------
(* Texts.                                                                  *)

Max(a, b) == IF a >= b THEN a ELSE b

IsSpace(c) == c \in {" "}

RECURSIVE LStrip(_)
LStrip(s) == IF s = <<>> THEN s
             ELSE IF IsSpace(Head(s)) THEN LStrip(Tail(s)) ELSE s

RECURSIVE RStrip(_)
RStrip(s) == IF s = <<>> THEN s
             ELSE IF IsSpace(s[Len(s)]) THEN RStrip(SubSeq(s, 1, Len(s) - 1)) ELSE s

\* str.strip()
Strip(s) == RStrip(LStrip(s))

\* str.replace(a, b) for one-character a and b
Replace(s, a, b) == [i \in 1..Len(s) |-> IF s[i] = a THEN b ELSE s[i]]

Digits == {"0", "1", "2", "3", "4", "5", "6", "7", "8", "9"}

DigitVal(c) ==
    CASE c = "0" -> 0 [] c = "1" -> 1 [] c = "2" -> 2 [] c = "3" -> 3
      [] c = "4" -> 4 [] c = "5" -> 5 [] c = "6" -> 6 [] c = "7" -> 7
      [] c = "8" -> 8 [] c = "9" -> 9

AllDigits(s) == \A i \in 1..Len(s) : s[i] \in Digits

\* The number a digit string writes; the empty string counts 0.
RECURSIVE NatOf(_)
NatOf(s) == IF s = <<>> THEN 0
            ELSE 10 * NatOf(SubSeq(s, 1, Len(s) - 1)) + DigitVal(s[Len(s)])

\* Fractional digits kept by the model's amounts: thousandths.
DecScale == 3

RECURSIVE Pow10(_)
Pow10(n) == IF n <= 0 THEN 1 ELSE 10 * Pow10(n - 1)

\* One hundredth (a cent), in the model's unit.
Cent == Pow10(DecScale - 2)

NoDecimal == [ok |-> FALSE, v |-> 0]

\* Decimal(text): surrounding blanks are ignored, then an optional sign, digits
\* and at most one point with digits on at least one side.  Anything else raises
\* InvalidOperation (ok = FALSE).  The value counts thousandths.
ParseDecimal(text) ==
    LET s == Strip(text)
        signed == s # <<>> /\ s[1] \in {"-", "+"}
        body == IF signed THEN Tail(s) ELSE s
        dots == {i \in 1..Len(body) : body[i] = "."}
        ip == IF dots = {} THEN body
              ELSE SubSeq(body, 1, (CHOOSE i \in dots : TRUE) - 1)
        fp == IF dots = {} THEN <<>>
              ELSE SubSeq(body, (CHOOSE i \in dots : TRUE) + 1, Len(body))
    IN  IF Cardinality(dots) > 1 \/ ~AllDigits(ip) \/ ~AllDigits(fp)
           \/ Len(ip) + Len(fp) = 0 \/ Len(fp) > DecScale
        THEN NoDecimal
        ELSE LET mag == NatOf(ip) * Pow10(DecScale) + NatOf(fp) * Pow10(DecScale - Len(fp))
             IN  [ok |-> TRUE, v |-> IF signed /\ s[1] = "-" THEN 0 - mag ELSE mag]

\* A value written into a Numeric(14, 2) column keeps two fractional digits:
\* it is rounded to the nearest hundredth (a tie goes to the even hundredth).
ToNumeric2(v) ==
    LET a == IF v < 0 THEN 0 - v ELSE v
        q == a \div Cent
        r == a % Cent
        up == 2 * r > Cent \/ (2 * r = Cent /\ q % 2 = 1)
        m == Cent * (IF up THEN q + 1 ELSE q)
    IN  IF v < 0 THEN 0 - m ELSE m

-----------------------------------------------------------------------------
(* Dates.                                                                  *)

\* date.today() of the run
Today == <<2025, 3, 1>>

NoDate == [ok |-> FALSE, d |-> <<0, 0, 0>>]

IsLeap(y) == (y % 4 = 0 /\ y % 100 # 0) \/ y % 400 = 0

DaysIn(y, m) == IF m = 2 THEN (IF IsLeap(y) THEN 29 ELSE 28)
                ELSE IF m \in {4, 6, 9, 11} THEN 30 ELSE 31

\* date.fromisoformat(text): YYYY-MM-DD with a month and a day that exist;
\* anything else raises ValueError (ok = FALSE).
FromIsoFormat(s) ==
    IF Len(s) # 10 THEN NoDate
    ELSE IF s[5] # "-" \/ s[8] # "-" THEN NoDate
    ELSE IF ~AllDigits(SubSeq(s, 1, 4)) \/ ~AllDigits(SubSeq(s, 6, 7))
            \/ ~AllDigits(SubSeq(s, 9, 10)) THEN NoDate
    ELSE LET y == NatOf(SubSeq(s, 1, 4))
             m == NatOf(SubSeq(s, 6, 7))
             d == NatOf(SubSeq(s, 9, 10))
         IN  IF y < 1 \/ m < 1 \/ m > 12 \/ d < 1 THEN NoDate
             ELSE IF d > DaysIn(y, m) THEN NoDate
             ELSE [ok |-> TRUE, d |-> <<y, m, d>>]

\* ORDER BY date: the calendar order
DateLess(a, b) ==
    \/ a[1] < b[1]
    \/ a[1] = b[1] /\ a[2] < b[2]
    \/ a[1] = b[1] /\ a[2] = b[2] /\ a[3] < b[3]

-----------------------------------------------------------------------------
(* The store: tables of rows, primary keys, constraints, commit.           *)

EmptyDb == [accounts |-> {}, entries |-> {}, lines |-> {},
            budgets |-> {}, investors |-> {}]

Ids(rows) == {r.id : r \in rows}

RECURSIVE MaxId(_)
MaxId(rows) == IF rows = {} THEN 0
               ELSE LET r == CHOOSE x \in rows : TRUE
                    IN  Max(r.id, MaxId(rows \ {r}))

\* The integer primary key given to a new row of a table.
NextId(rows) == MaxId(rows) + 1

\* ForeignKey("journal_entries.id") and ForeignKey("accounts.id") of a line
FkViolated(d) ==
    \E l \in d.lines : l.entry_id \notin Ids(d.entries)
                       \/ l.account_id \notin Ids(d.accounts)

\* unique=True of Account.code
UniqueViolated(d) ==
    \E a, b \in d.accounts : a.id # b.id /\ a.code = b.code

\* RedirectResponse(url="/accounting/ui", status_code=303); an exception that
\* leaves the handler is answered 500 with no redirect.
Response(status) ==
    [status_code |-> status,
     location |-> IF status = 303 THEN "/accounting/ui" ELSE ""]

Reply(d, status, branch) == [db |-> d, status |-> status, branch |-> branch]

\* db.commit(): the session's pending rows become the committed rows in one
\* step, or a constraint fails, IntegrityError is raised out of the handler
\* (a 500 response) and the session is rolled back.
Commit(old, new) ==
    IF (fkEnforced /\ FkViolated(new)) \/ UniqueViolated(new)
    THEN Reply(old, 500, "IntegrityError")
    ELSE Reply(new, 303, "committed")

-----------------------------------------------------------------------------
(* Chart of accounts.                                                      *)

\* existing = db.query(Account).filter(Account.code == code).first()
CodeTaken(d, code) == \E a \in d.accounts : a.code = code

\* code.strip() / name.strip() and the check that neither is empty
BlankAccount(code, name) == code = <<>> \/ name = <<>>

NewAccount(d, code, name, f) ==
    [id |-> NextId(d.accounts), code |-> code, name |-> name, type |-> f.type,
     country_scheme |-> f.scheme, is_cash |-> f.is_cash, is_equity |-> f.is_equity]

create_account(d, f) ==
    LET code == Strip(f.code)
        name == Strip(f.name)
    IN  IF BlankAccount(code, name) THEN Reply(d, 303, "blank")
        ELSE IF CodeTaken(d, code) THEN Reply(d, 303, "duplicate")
        ELSE Commit(d, [d EXCEPT !.accounts = @ \cup {NewAccount(d, code, name, f)}])

\* Mutant: the filter compares the wrong column.
HasLines_WrongColumn(d, account_id) == \E l \in d.lines : l.entry_id = account_id

\* has_lines = db.query(JournalLine).filter(JournalLine.account_id == acc.id).first()
HasLines(d, account_id) == \E l \in d.lines : l.account_id = account_id

\* db.delete(acc): the account's row goes.  Flushing the delete loads
\* Account.lines; lines found there would have their account_id set to NULL,
\* which nullable=False refuses.
DeleteAccountRows(d, account_id) ==
    [d EXCEPT !.accounts = {a \in @ : a.id # account_id}]

delete_account(d, account_id) ==
    IF account_id \notin Ids(d.accounts) THEN Reply(d, 303, "not_found")
    ELSE IF HasLines(d, account_id) THEN Reply(d, 303, "has_lines")
    ELSE Commit(d, DeleteAccountRows(d, account_id))

-----------------------------------------------------------------------------
(* Journal.                                                                *)

\* "Asiento manual"
DefaultDescription ==
    <<"A", "s", "i", "e", "n", "t", "o", " ", "m", "a", "n", "u", "a", "l">>

\* d = date.fromisoformat(date_str), or date.today() when that raises
EntryDate(date_str) ==
    LET p == FromIsoFormat(date_str) IN IF p.ok THEN p.d ELSE Today

\* description.strip(), or the default text when nothing is left
EntryDescription(description) ==
    LET s == Strip(description) IN IF s = <<>> THEN DefaultDescription ELSE s

\* Decimal(amount.replace(",", "."))
AmountOf(text) == ParseDecimal(Replace(text, ",", "."))

\* Mutant: the comparison of the two amounts is left out.
AmountsRejected_NoBalanceCheck(debit, credit) == debit <= 0 \/ credit <= 0

\* if debit <= 0 or credit <= 0 or debit != credit
AmountsRejected(debit, credit) == debit <= 0 \/ credit <= 0 \/ debit # credit

\* JournalEntry(date, description, created_by) after db.add and db.flush
NewEntry(d, the_date, description, user) ==
    [id |-> NextId(d.entries), date |-> the_date, description |-> description,
     created_by |-> user]

\* line_debit and line_credit, as they are stored
NewLines(d, entry_id, debit_account_id, debit, credit_account_id, credit) ==
    LET n == NextId(d.lines)
    IN  { [id |-> n, entry_id |-> entry_id, account_id |-> debit_account_id,
           debit |-> ToNumeric2(debit), credit |-> 0],
          [id |-> n + 1, entry_id |-> entry_id, account_id |-> credit_account_id,
           debit |-> 0, credit |-> ToNumeric2(credit)] }

\* The checks of the form's amounts: which return ends the handler, or "ok".
journal_check(f) ==
    LET debit == AmountOf(f.debit_amount)
        credit == AmountOf(f.credit_amount)
    IN  IF ~debit.ok \/ ~credit.ok THEN "bad_amount"
        ELSE IF AmountsRejected(debit.v, credit.v) THEN "not_balanced"
        ELSE "ok"

\* entry = JournalEntry(...) of a form that passed the checks
FormEntry(d, f, user) ==
    NewEntry(d, EntryDate(f.date_str), EntryDescription(f.description), user)

\* The rows after db.add(entry) and db.add_all([line_debit, line_credit]).
JournalRows(d, entry, f) ==
    [d EXCEPT !.entries = @ \cup {entry},
              !.lines = @ \cup NewLines(d, entry.id,
                                        f.debit_account_id, AmountOf(f.debit_amount).v,
                                        f.credit_account_id, AmountOf(f.credit_amount).v)]

\* Mutant: the entry is added and committed before the amounts are checked.
create_journal_entry_CommitsFirst(d, f, user) ==
    LET c == journal_check(f)
        entry == FormEntry(d, f, user)
    IN  IF c # "ok" THEN Reply([d EXCEPT !.entries = @ \cup {entry}], 303, c)
        ELSE Commit(d, JournalRows(d, entry, f))

create_journal_entry(d, f, user) ==
    LET c == journal_check(f)
    IN  IF c # "ok" THEN Reply(d, 303, c)
        ELSE Commit(d, JournalRows(d, FormEntry(d, f, user), f))

\* JournalEntry.lines
LinesOf(d, entry_id) == {l \in d.lines : l.entry_id = entry_id}

\* Mutant: the relationship has no delete cascade.
DeleteEntryRows_NoCascade(d, entry_id) ==
    [d EXCEPT !.entries = {e \in @ : e.id # entry_id}]

\* cascade="all, delete-orphan": deleting an entry deletes the lines it owns
DeleteEntryRows(d, entry_id) ==
    [d EXCEPT !.entries = {e \in @ : e.id # entry_id},
              !.lines = @ \ LinesOf(d, entry_id)]

\* Mutant: the entry is deleted without being looked up first.
delete_journal_entry_NoLookup(d, entry_id) ==
    Commit(d, DeleteEntryRows(d, entry_id))

delete_journal_entry(d, entry_id) ==
    IF entry_id \notin Ids(d.entries) THEN Reply(d, 303, "not_found")
    ELSE Commit(d, DeleteEntryRows(d, entry_id))

RECURSIVE SumDebit(_)
SumDebit(ls) == IF ls = {} THEN 0
                ELSE LET l == CHOOSE x \in ls : TRUE
                     IN  l.debit + SumDebit(ls \ {l})

RECURSIVE SumCredit(_)
SumCredit(ls) == IF ls = {} THEN 0
                 ELSE LET l == CHOOSE x \in ls : TRUE
                      IN  l.credit + SumCredit(ls \ {l})

\* JournalEntry.total_debit and total_credit
total_debit(d, entry_id) == SumDebit(LinesOf(d, entry_id))
total_credit(d, entry_id) == SumCredit(LinesOf(d, entry_id))

-----------------------------------------------------------------------------
(* Budgets and investors.                                                  *)

NoInt == [ok |-> FALSE, v |-> 0]

\* int(text): surrounding blanks are ignored, then an optional sign and digits.
ParseInt(text) ==
    LET s == Strip(text)
        signed == s # <<>> /\ s[1] \in {"-", "+"}
        body == IF signed THEN Tail(s) ELSE s
    IN  IF body = <<>> \/ ~AllDigits(body) THEN NoInt
        ELSE [ok |-> TRUE, v |-> IF signed /\ s[1] = "-" THEN 0 - NatOf(body)
                                 ELSE NatOf(body)]

\* Budget.month is None (an annual budget) or an integer.
NoMonth == [none |-> TRUE, v |-> 0]

\* m = None; if month: m = int(month), or None when that raises
BudgetMonth(month) ==
    IF month = <<>> THEN NoMonth
    ELSE LET p == ParseInt(month)
         IN  IF p.ok THEN [none |-> FALSE, v |-> p.v] ELSE NoMonth

create_budget(d, f, user) ==
    LET name == Strip(f.name)
        target == AmountOf(f.expense_target)
    IN  IF name = <<>> THEN Reply(d, 303, "blank")
        ELSE IF ~target.ok THEN Reply(d, 303, "bad_amount")
        ELSE Commit(d, [d EXCEPT !.budgets = @ \cup
                 {[id |-> NextId(d.budgets), name |-> name, year |-> f.year,
                   month |-> BudgetMonth(f.month),
                   expense_target |-> ToNumeric2(target.v), created_by |-> user]}])

delete_budget(d, budget_id) ==
    IF budget_id \notin Ids(d.budgets) THEN Reply(d, 303, "not_found")
    ELSE Commit(d, [d EXCEPT !.budgets = {b \in @ : b.id # budget_id}])

\* notes.strip() or None; None is written <<>> here.
create_investor(d, f) ==
    LET name == Strip(f.name)
        pct == AmountOf(f.ownership_percent)
        amt == AmountOf(f.invested_amount)
    IN  IF name = <<>> THEN Reply(d, 303, "blank")
        ELSE IF ~pct.ok \/ ~amt.ok THEN Reply(d, 303, "bad_amount")
        ELSE Commit(d, [d EXCEPT !.investors = @ \cup
                 {[id |-> NextId(d.investors), name |-> name,
                   ownership_percent |-> ToNumeric2(pct.v),
                   invested_amount |-> ToNumeric2(amt.v),
                   notes |-> Strip(f.notes)]}])

delete_investor(d, investor_id) ==
    IF investor_id \notin Ids(d.investors) THEN Reply(d, 303, "not_found")
    ELSE Commit(d, [d EXCEPT !.investors = {i \in @ : i.id # investor_id}])

-----------------------------------------------------------------------------
(* The accounting page: ledger of one account and balance by account.      *)

EntryOf(d, line) == CHOOSE e \in d.entries : e.id = line.entry_id

\* Mutant: the query orders by the entry id alone.
EntryBefore_ByIdOnly(a, b) == a.id < b.id

\* ORDER BY JournalEntry.date, JournalEntry.id
EntryBefore(a, b) == DateLess(a.date, b.date) \/ (a.date = b.date /\ a.id < b.id)

RECURSIVE SortEntries(_)
SortEntries(es) ==
    IF es = {} THEN <<>>
    ELSE LET first == CHOOSE e \in es : \A o \in es \ {e} : EntryBefore(e, o)
         IN  <<first>> \o SortEntries(es \ {first})

\* Every sequence that lists the rows of a set once each.
RECURSIVE Perms(_)
Perms(rows) ==
    IF rows = {} THEN {<<>>}
    ELSE UNION {{<<r>> \o p : p \in Perms(rows \ {r})} : r \in rows}

RECURSIVE OrdersOver(_, _, _)
OrdersOver(d, es, account_id) ==
    IF es = <<>> THEN {<<>>}
    ELSE LET group == {l \in LinesOf(d, Head(es).id) : l.account_id = account_id}
         IN  UNION {{p \o rest : rest \in OrdersOver(d, Tail(es), account_id)}
                      : p \in Perms(group)}

\* db.query(JournalLine).join(JournalEntry).filter(account_id == ...)
\*   .order_by(JournalEntry.date, JournalEntry.id).all()
\* The result lists the account's lines by the date and then the id of their
\* entries; lines of one entry compare equal under this order, and the store
\* may return them either way round.  The set of results the query can give.
LedgerQuery(d, account_id) ==
    IF account_id = 0 \/ account_id \notin Ids(d.accounts) THEN {<<>>}
    ELSE OrdersOver(d, SortEntries({e \in d.entries :
                        \E l \in LinesOf(d, e.id) : l.account_id = account_id}),
                    account_id)

\* for line in q.all(): ledger_balance += debit - credit; ledger_lines.append(...)
RECURSIVE LedgerLines(_, _, _)
LedgerLines(d, q, ledger_balance) ==
    IF q = <<>> THEN <<>>
    ELSE LET line == Head(q)
             amount == line.debit - line.credit
             balance == ledger_balance + amount
         IN  <<[date |-> EntryOf(d, line).date,
                description |-> EntryOf(d, line).description,
                debit |-> line.debit, credit |-> line.credit,
                balance |-> balance]>>
             \o LedgerLines(d, Tail(q), balance)

\* Mutant: the balance is taken credit minus debit.
Saldo_CreditMinusDebit(debit_total, credit_total) == credit_total - debit_total

\* saldo = debit_total - credit_total
Saldo(debit_total, credit_total) == debit_total - credit_total

\* Mutant: only the debit total decides whether the account has a row.
HasMovement_DebitOnly(debit_total, credit_total) == debit_total # 0

\* if debit_total != 0 or credit_total != 0
HasMovement(debit_total, credit_total) == debit_total # 0 \/ credit_total # 0

\* balance_rows: one row per account whose lines have a nonzero total.  (The
\* page lists them by account code; the rows are kept here as a set.)
BalanceRows(d) ==
    LET sums(acc) == {l \in d.lines : l.account_id = acc.id}
    IN  { [account |-> acc.id,
           debit_total |-> SumDebit(sums(acc)),
           credit_total |-> SumCredit(sums(acc)),
           saldo |-> Saldo(SumDebit(sums(acc)), SumCredit(sums(acc)))]
          : acc \in {a \in d.accounts :
                       HasMovement(SumDebit(sums(a)), SumCredit(sums(a)))} }

\* lines = db.query(JournalLine).all(); for line in lines: acc = line.account;
\* ... acc.type: a line whose account row is missing has account None, and
\* reading its type raises AttributeError out of the handler (a 500 response).
StatementsRaise(d) == \E l \in d.lines : l.account_id \notin Ids(d.accounts)

\* line.account
AccountOf(d, line) == CHOOSE a \in d.accounts : a.id = line.account_id

\* The lines of the accounts of one type.
LinesOfType(d, type) == {l \in d.lines : AccountOf(d, l).type = type}

\* Sum of debit - credit over a set of lines.
NetDebit(ls) == SumDebit(ls) - SumCredit(ls)

\* Sum of credit - debit over a set of lines.
NetCredit(ls) == SumCredit(ls) - SumDebit(ls)

\* Mutant: the income is taken debit minus credit.
TotalIncome_DebitMinusCredit(d) == NetDebit(LinesOfType(d, "income"))

\* if acc.type == "income": total_income += credit - debit
TotalIncome(d) == NetCredit(LinesOfType(d, "income"))

\* elif acc.type == "expense": total_expense += debit - credit
TotalExpense(d) == NetDebit(LinesOfType(d, "expense"))

\* net_income = total_income - total_expense
NetIncome(d) == TotalIncome(d) - TotalExpense(d)

\* if acc.type == "asset": balance = debit - credit; assets_total += balance
AssetsTotal(d) == NetDebit(LinesOfType(d, "asset"))

\* Mutant: the liabilities are taken debit minus credit.
LiabilitiesTotal_DebitMinusCredit(d) == NetDebit(LinesOfType(d, "liability"))

\* elif acc.type == "liability": balance = credit - debit
LiabilitiesTotal(d) == NetCredit(LinesOfType(d, "liability"))

\* elif acc.type == "equity" or acc.is_equity: balance = credit - debit.  The
\* branch is reached only by lines whose account is neither an asset nor a
\* liability.
EquityTotal(d) ==
    NetCredit({l \in d.lines :
                 /\ AccountOf(d, l).type \notin {"asset", "liability"}
                 /\ AccountOf(d, l).type = "equity" \/ AccountOf(d, l).is_equity})

\* Mutant: every account flagged is_cash counts, whatever its type.
CashBalance_AnyType(d) == NetDebit({l \in d.lines : AccountOf(d, l).is_cash})

\* if acc.type == "asset": ... if acc.is_cash: cash_balance += balance
CashBalance(d) ==
    NetDebit({l \in LinesOfType(d, "asset") : AccountOf(d, l).is_cash})

\* key = (entry.date.year, entry.date.month)
MonthKey(d, line) == <<EntryOf(d, line).date[1], EntryOf(d, line).date[2]>>

\* monthly_expenses[key] += debit - credit, over the lines of expense accounts
MonthlyExpenses(d) ==
    LET keys == {MonthKey(d, l) : l \in LinesOfType(d, "expense")}
    IN  [k \in keys |-> NetDebit({l \in LinesOfType(d, "expense") : MonthKey(d, l) = k})]

\* The order of sorted() on (year, month) tuples.
KeyLess(a, b) == a[1] < b[1] \/ (a[1] = b[1] /\ a[2] < b[2])

\* sorted(monthly_expenses.keys())
RECURSIVE SortedKeys(_)
SortedKeys(keys) ==
    IF keys = {} THEN <<>>
    ELSE LET first == CHOOSE k \in keys : \A o \in keys \ {k} : KeyLess(k, o)
         IN  <<first>> \o SortedKeys(keys \ {first})

\* The months the burn rate averages: the 3 of sorted_keys[-3:].
RecentMonths == 3

\* Mutant: the slice takes the first months instead of the last.
LastKeys_FirstMonths(sorted_keys) ==
    SubSeq(sorted_keys, 1, IF Len(sorted_keys) < RecentMonths THEN Len(sorted_keys)
                           ELSE RecentMonths)

\* last_keys = sorted_keys[-3:]
LastKeys(sorted_keys) ==
    SubSeq(sorted_keys, Max(1, Len(sorted_keys) - RecentMonths + 1), Len(sorted_keys))

RECURSIVE SumOver(_, _)
SumOver(f, ks) == IF ks = <<>> THEN 0 ELSE f[Head(ks)] + SumOver(f, Tail(ks))

\* A quotient of two Decimals is kept as the fraction num / den with den > 0
\* (the 28 significant digits of the Decimal context are beyond the amounts of
\* the model).
Fraction(num, den) == IF den < 0 THEN [num |-> 0 - num, den |-> 0 - den]
                      ELSE [num |-> num, den |-> den]

\* burn_rate = Decimal("0.00"); if monthly_expenses: ... total_recent / months
BurnRate(d) ==
    LET monthly_expenses == MonthlyExpenses(d)
        last_keys == LastKeys(SortedKeys(DOMAIN monthly_expenses))
        total_recent == SumOver(monthly_expenses, last_keys)
        months == Len(last_keys)
    IN  IF DOMAIN monthly_expenses = {} \/ months = 0 THEN Fraction(0, 1)
        ELSE Fraction(total_recent, months)

\* None
NoValue == [defined |-> FALSE, num |-> 0, den |-> 1]

Value(q) == [defined |-> TRUE, num |-> q.num, den |-> q.den]

\* Mutant: the runway is computed whenever the burn rate is not zero.
RunwayMonths_NonZeroBurn(cash_balance, burn_rate) ==
    IF burn_rate.num # 0
    THEN Value(Fraction(cash_balance * burn_rate.den, burn_rate.num))
    ELSE NoValue

\* runway_months = None; if burn_rate > 0: runway_months = cash_balance / burn_rate
RunwayMonths(cash_balance, burn_rate) ==
    IF burn_rate.num > 0
    THEN Value(Fraction(cash_balance * burn_rate.den, burn_rate.num))
    ELSE NoValue

\* Mutant: the month of the budget is not compared.
BudgetCounts_YearOnly(b, the_date) == the_date[1] = b.year

\* if entry.date.year != b.year: continue
\* if b.month is not None and entry.date.month != b.month: continue
BudgetCounts(b, the_date) ==
    /\ the_date[1] = b.year
    /\ b.month.none \/ the_date[2] = b.month.v

\* budgets_info: actual_expense and variance of every budget.  (The page lists
\* them by year and month; the rows are kept here as a set.)
BudgetsInfo(d) ==
    { LET actual_expense ==
              NetDebit({l \in LinesOfType(d, "expense") :
                          BudgetCounts(b, EntryOf(d, l).date)})
      IN  [budget |-> b.id, actual_expense |-> actual_expense,
           variance |-> actual_expense - b.expense_target]
      : b \in d.budgets }

\* Mutant: the division is made whenever the percentage is not zero.
ImpliedValuation_NonZeroPct(pct, amt) ==
    IF pct # 0 THEN Value(Fraction(amt * 100, pct)) ELSE NoValue

\* implied_valuation = None; if pct > 0: (amt / pct) * Decimal("100.00")
ImpliedValuation(pct, amt) ==
    IF pct > 0 THEN Value(Fraction(amt * 100, pct)) ELSE NoValue

\* investors_info
InvestorsInfo(d) ==
    { [investor |-> inv.id,
       implied_valuation |-> ImpliedValuation(inv.ownership_percent, inv.invested_amount)]
      : inv \in d.investors }

NoView == [ledger_lines |-> <<>>, ledger_balance |-> 0, balance_rows |-> {},
           total_income |-> 0, total_expense |-> 0, net_income |-> 0,
           assets_total |-> 0, liabilities_total |-> 0, equity_total |-> 0,
           cash_balance |-> 0, burn_rate |-> Fraction(0, 1), runway_months |-> NoValue,
           budgets_info |-> {}, investors_info |-> {}]

\* GET /accounting/ui?account_id=...; q is the result of the ledger query.
accounting_ui(d, account_id, q) ==
    IF StatementsRaise(d)
    THEN [status |-> 500, branch |-> "AttributeError", view |-> NoView]
    ELSE LET ledger_lines == LedgerLines(d, q, 0)
         IN  [status |-> 200, branch |-> "rendered",
              view |-> [ledger_lines |-> ledger_lines,
                        ledger_balance |-> IF ledger_lines = <<>> THEN 0
                                           ELSE ledger_lines[Len(ledger_lines)].balance,
                        balance_rows |-> BalanceRows(d),
                        total_income |-> TotalIncome(d),
                        total_expense |-> TotalExpense(d),
                        net_income |-> NetIncome(d),
                        assets_total |-> AssetsTotal(d),
                        liabilities_total |-> LiabilitiesTotal(d),
                        equity_total |-> EquityTotal(d),
                        cash_balance |-> CashBalance(d),
                        burn_rate |-> BurnRate(d),
                        runway_months |-> RunwayMonths(CashBalance(d), BurnRate(d)),
                        budgets_info |-> BudgetsInfo(d),
                        investors_info |-> InvestorsInfo(d)]]

-----------------------------------------------------------------------------
(* Requests the model submits.                                             *)

Workers == {"w1", "w2"}

\* request.session["user_id"] of the caller
User == "admin"

AccountForms ==
    { [code |-> <<"1", "0", "0">>, name |-> <<"C", "a", "j", "a">>, type |-> "asset",
       scheme |-> "ES", is_cash |-> TRUE, is_equity |-> FALSE],
      [code |-> <<" ", "6", "0", "0", " ">>, name |-> <<"G", "a", "s", "t", "o">>,
       type |-> "expense", scheme |-> "ES", is_cash |-> FALSE, is_equity |-> FALSE],
      [code |-> <<" ", " ">>, name |-> <<"X">>, type |-> "asset",
       scheme |-> "ES", is_cash |-> FALSE, is_equity |-> FALSE] }

AccountIdInputs == 1..MaxAccounts

EntryIdInputs == 1..MaxEntries

DateTexts ==
    { <<"2", "0", "2", "5", "-", "0", "1", "-", "1", "5">>,
      <<"h", "o", "y">> }

DescriptionTexts == { <<"P", "a", "g", "o">>, <<" ", " ">> }

\* (debit_amount, credit_amount)
AmountTexts ==
    { << <<"2", ",", "5">>, <<"2", ".", "5">> >>,
      << <<"1">>, <<"2", ",", "5">> >>,
      << <<"0">>, <<"0">> >>,
      << <<"-", "1">>, <<"-", "1">> >>,
      << <<"x">>, <<"1">> >> }

PrecisionAmountTexts ==
    { << <<"2", ",", "5">>, <<"2", ".", "5">> >>,
      << <<"0", ".", "0", "0", "1">>, <<" ", "0", ",", "0", "0", "1">> >>,
      << <<"1">>, <<"2", ",", "5">> >>,
      << <<"2", ".", "5">>, <<"2", ".", "5", "1">> >> }

\* (debit_account_id, credit_account_id)
AccountPairs == { <<1, 1>>, <<1, 2>>, <<2, 1>> }

BudgetForms ==
    { [name |-> nm, year |-> 2025, month |-> <<"3">>, expense_target |-> tg]
      : nm \in { <<"Q", "1">>, <<" ">> },
        tg \in { <<"1", "8", "0", "0">>, <<"x">> } }

InvestorForms ==
    { [name |-> nm, ownership_percent |-> <<"1", "0">>, invested_amount |-> am,
       notes |-> <<>>]
      : nm \in { <<"A", "n", "a">>, <<" ">> },
        am \in { <<"5", "0", "0">>, <<"x">> } }

JournalForms(dates, descriptions, amounts, pairs) ==
    { [date_str |-> dt, description |-> ds,
       debit_account_id |-> pr[1], debit_amount |-> am[1],
       credit_account_id |-> pr[2], credit_amount |-> am[2]]
      : dt \in dates, ds \in descriptions, am \in amounts, pr \in pairs }

-----------------------------------------------------------------------------
(* One request handled from start to end, no other request in between.     *)

NoForm == [date_str |-> <<>>, description |-> <<>>,
           debit_account_id |-> 0, debit_amount |-> <<>>,
           credit_account_id |-> 0, credit_amount |-> <<>>]

NoAccountForm == [code |-> <<>>, name |-> <<>>, type |-> "", scheme |-> "",
                  is_cash |-> FALSE, is_equity |-> FALSE]

NoEntry == [id |-> 0, date |-> <<0, 0, 0>>, description |-> <<>>, created_by |-> ""]

\* A worker between requests.  pc is the place of its request's handler, id the
\* row the request names, form a journal form, entry the JournalEntry its
\* session has flushed and not yet committed, acc an account form.  For a
\* request of the page: snapshot tells whether the session's queries all read
\* the rows committed when its first query ran (kept in seen), todo are the
\* accounts still to be summed, rows the balance rows and figs the figures
\* computed so far.
Idle == [pc |-> "idle", id |-> 0, form |-> NoForm, entry |-> NoEntry,
         acc |-> NoAccountForm, snapshot |-> FALSE, seen |-> EmptyDb,
         todo |-> <<>>, rows |-> {}, figs |-> NoView]

AllIdle == \A w \in Workers : sess[w] = Idle

Within(d, entries) ==
    /\ MaxId(d.accounts) <= MaxAccounts
    /\ MaxId(d.entries) <= entries
    /\ MaxId(d.budgets) <= MaxBudgets
    /\ MaxId(d.investors) <= MaxInvestors

InBounds(d) == Within(d, MaxEntries)

Handled(op, r, id, tags) ==
    [op |-> op, status |-> r.status, branch |-> r.branch, id |-> id,
     tags |-> tags, view |-> NoView]

ServeWithin(op, r, id, tags, entries) ==
    /\ AllIdle
    /\ Within(r.db, entries)
    /\ db' = r.db
    /\ last' = Handled(op, r, id, tags)
    /\ UNCHANGED <<fkEnforced, sess>>

Serve(op, r, id, tags) == ServeWithin(op, r, id, tags, MaxEntries)

CreateAccount(forms) ==
    \E f \in forms :
        Serve("create_account", create_account(db, f), NextId(db.accounts), {})

DeleteAccount ==
    \E account_id \in AccountIdInputs :
        Serve("delete_account", delete_account(db, account_id), account_id, {})

\* What the request's fields are, before the handler looks at them.
JournalTags(d, f) ==
    (IF f.debit_account_id \notin Ids(d.accounts)
        \/ f.credit_account_id \notin Ids(d.accounts)
     THEN {"unknown_account"} ELSE {})
    \cup (IF Strip(f.description) = <<>> THEN {"blank_description"} ELSE {})
    \cup (IF ~FromIsoFormat(f.date_str).ok THEN {"bad_date"} ELSE {})
    \cup (IF /\ AmountOf(f.debit_amount).ok /\ AmountOf(f.credit_amount).ok
              /\ AmountOf(f.debit_amount).v >= 0
              /\ AmountOf(f.debit_amount).v = AmountOf(f.credit_amount).v
           THEN {"equal_nonnegative_amounts"} ELSE {})

CreateJournalEntry(forms) ==
    \E f \in forms :
        Serve("create_journal_entry", create_journal_entry(db, f, User),
              NextId(db.entries), JournalTags(db, f))

\* As CreateJournalEntry, in a specification that stores up to MaxMonths entries.
PostMonthly(forms) ==
    \E f \in forms :
        ServeWithin("create_journal_entry", create_journal_entry(db, f, User),
                    NextId(db.entries), JournalTags(db, f), MaxMonths)

\* Whether some account has lines and all of them belong to the entry.
DeleteTags(d, entry_id) ==
    IF \E a \in Ids(d.accounts) :
          /\ \E l \in d.lines : l.account_id = a
          /\ \A l \in d.lines : l.account_id = a => l.entry_id = entry_id
    THEN {"sole_lines"} ELSE {}

DeleteJournalEntry ==
    \E entry_id \in EntryIdInputs :
        Serve("delete_journal_entry", delete_journal_entry(db, entry_id), entry_id,
              DeleteTags(db, entry_id))

CreateBudget(forms) ==
    \E f \in forms :
        Serve("create_budget", create_budget(db, f, User), NextId(db.budgets), {})

DeleteBudget ==
    \E budget_id \in 1..MaxBudgets :
        Serve("delete_budget", delete_budget(db, budget_id), budget_id, {})

CreateInvestor(forms) ==
    \E f \in forms :
        Serve("create_investor", create_investor(db, f), NextId(db.investors), {})

DeleteInvestor ==
    \E investor_id \in 1..MaxInvestors :
        Serve("delete_investor", delete_investor(db, investor_id), investor_id, {})

AccountingUiFor(account_ids) ==
    \E account_id \in account_ids :
        \E q \in LedgerQuery(db, account_id) :
            LET r == accounting_ui(db, account_id, q)
            IN  /\ AllIdle
                /\ last' = [op |-> "accounting_ui", status |-> r.status,
                            branch |-> r.branch, id |-> account_id, tags |-> {},
                            view |-> r.view]
                /\ UNCHANGED <<db, fkEnforced, sess>>

AccountingUi == AccountingUiFor(0..MaxAccounts)

NoRequest == [op |-> "none", status |-> 0, branch |-> "none", id |-> 0,
              tags |-> {}, view |-> NoView]

Init ==
    /\ db = EmptyDb
    /\ fkEnforced \in BOOLEAN
    /\ last = NoRequest
    /\ sess = [w \in Workers |-> Idle]

Next ==
    \/ CreateAccount(AccountForms)
    \/ DeleteAccount
    \/ CreateJournalEntry(JournalForms(DateTexts, {<<"P", "a", "g", "o">>},
                                       AmountTexts, AccountPairs))
    \/ DeleteJournalEntry
    \/ AccountingUi

Spec == Init /\ [][Next]_vars

\* As Next, with one date and amounts that differ in size and in precision.
NextAmounts ==
    \/ CreateAccount(AccountForms)
    \/ DeleteAccount
    \/ CreateJournalEntry(JournalForms({<<"2", "0", "2", "5", "-", "0", "1", "-", "1", "5">>},
                                       {<<"P", "a", "g", "o">>},
                                       PrecisionAmountTexts, AccountPairs))
    \/ DeleteJournalEntry
    \/ AccountingUi

SpecAmounts == Init /\ [][NextAmounts]_vars

\* The forms of the account, journal, budget and investor pages, with fields
\* the handlers refuse among them; one account code, one pair of accounts.
NextForms ==
    \/ CreateAccount({f \in AccountForms : f.type = "asset"})
    \/ DeleteAccount
    \/ CreateJournalEntry(JournalForms({<<"2", "0", "2", "5", "-", "0", "1", "-", "1", "5">>},
                                       DescriptionTexts, AmountTexts, {<<1, 1>>}))
    \/ DeleteJournalEntry
    \/ CreateBudget(BudgetForms)
    \/ DeleteBudget
    \/ CreateInvestor(InvestorForms)
    \/ DeleteInvestor

SpecForms == Init /\ [][NextForms]_vars

-----------------------------------------------------------------------------
(* Requests of several workers, interleaved statement by statement.  Each  *)
(* worker has a session of its own; a query reads the committed rows, and  *)
(* what a session has flushed is seen by no other session before commit.   *)

Respond(w, op, r) ==
    /\ db' = r.db
    /\ last' = Handled(op, r, 0, {})
    /\ sess' = [sess EXCEPT ![w] = Idle]
    /\ UNCHANGED fkEnforced

Goto(w, s) ==
    /\ sess' = [sess EXCEPT ![w] = s]
    /\ UNCHANGED <<db, fkEnforced, last>>

\* delete_account up to its second return: the account and has_lines queries
DA_Check(w) ==
    /\ sess[w].pc = "idle"
    /\ \E account_id \in AccountIdInputs :
          IF account_id \notin Ids(db.accounts)
          THEN Respond(w, "delete_account", Reply(db, 303, "not_found"))
          ELSE IF HasLines(db, account_id)
          THEN Respond(w, "delete_account", Reply(db, 303, "has_lines"))
          ELSE Goto(w, [Idle EXCEPT !.pc = "da_checked", !.id = account_id])

\* db.delete(acc), flushed by db.commit(): Account.lines is loaded and the
\* DELETE is sent.  Lines found now would be set to account_id NULL, which
\* nullable=False refuses; a row deleted meanwhile makes the DELETE match no
\* row (StaleDataError).
DA_Flush(w) ==
    /\ sess[w].pc = "da_checked"
    /\ IF sess[w].id \notin Ids(db.accounts)
       THEN Respond(w, "delete_account", Reply(db, 500, "StaleDataError"))
       ELSE IF HasLines(db, sess[w].id)
       THEN Respond(w, "delete_account", Reply(db, 500, "IntegrityError"))
       ELSE Goto(w, [sess[w] EXCEPT !.pc = "da_flushed"])

\* the COMMIT of db.commit() in delete_account
DA_Commit(w) ==
    /\ sess[w].pc = "da_flushed"
    /\ Respond(w, "delete_account",
               IF sess[w].id \notin Ids(db.accounts)
               THEN Reply(db, 500, "StaleDataError")
               ELSE Commit(db, DeleteAccountRows(db, sess[w].id)))

\* Entries flushed by the sessions and not yet committed.
PendingEntries == {sess[w].entry : w \in {x \in Workers : sess[x].pc = "cje_flushed"}}

\* Mutant: the flush commits the entry.
FlushedRows_Commits(d, entry) == [d EXCEPT !.entries = @ \cup {entry}]

\* db.add(entry); db.flush(): the INSERT is sent inside the session's open
\* transaction and entry.id is set; the committed rows stay as they are.
FlushedRows(d, entry) == d

\* create_journal_entry up to db.flush().  The form names accounts that exist
\* when it is submitted.
CJE_Flush(w, forms) ==
    /\ sess[w].pc = "idle"
    /\ \E f \in forms :
          /\ {f.debit_account_id, f.credit_account_id} \subseteq Ids(db.accounts)
          /\ IF journal_check(f) # "ok"
             THEN Respond(w, "create_journal_entry", Reply(db, 303, journal_check(f)))
             ELSE LET entry == FormEntry([db EXCEPT !.entries = @ \cup PendingEntries],
                                         f, User)
                  IN  /\ entry.id <= MaxEntries
                      /\ db' = FlushedRows(db, entry)
                      /\ sess' = [sess EXCEPT ![w] = [Idle EXCEPT !.pc = "cje_flushed",
                                                           !.form = f, !.entry = entry]]
                      /\ UNCHANGED <<fkEnforced, last>>

\* create_journal_entry from the two lines to db.commit()
CJE_Commit(w) ==
    /\ sess[w].pc = "cje_flushed"
    /\ Respond(w, "create_journal_entry",
               Commit(db, JournalRows(db, sess[w].entry, sess[w].form)))

\* delete_journal_entry up to its first return
DJE_Get(w) ==
    /\ sess[w].pc = "idle"
    /\ \E entry_id \in EntryIdInputs :
          IF entry_id \notin Ids(db.entries)
          THEN Respond(w, "delete_journal_entry", Reply(db, 303, "not_found"))
          ELSE Goto(w, [Idle EXCEPT !.pc = "dje_got", !.id = entry_id])

\* db.delete(entry); db.commit(): the lines are loaded and deleted with the entry
DJE_Commit(w) ==
    /\ sess[w].pc = "dje_got"
    /\ Respond(w, "delete_journal_entry",
               IF sess[w].id \notin Ids(db.entries)
               THEN Reply(db, 500, "StaleDataError")
               ELSE Commit(db, DeleteEntryRows(db, sess[w].id)))

ConcJournalForms ==
    JournalForms({<<"2", "0", "2", "5", "-", "0", "1", "-", "1", "5">>},
                 {<<"P", "a", "g", "o">>},
                 { << <<"2", ",", "5">>, <<"2", ".", "5">> >>,
                   << <<"1">>, <<"2", ",", "5">> >> },
                 AccountPairs)

NextConc ==
    \/ CreateAccount(AccountForms)
    \/ \E w \in Workers :
          \/ DA_Check(w)
          \/ DA_Flush(w)
          \/ DA_Commit(w)
          \/ CJE_Flush(w, ConcJournalForms)
          \/ CJE_Commit(w)
          \/ DJE_Get(w)
          \/ DJE_Commit(w)

SpecConc == Init /\ [][NextConc]_vars

-----------------------------------------------------------------------------
(* The page requested while entries are posted and deleted: its queries,   *)
(* one step each.                                                          *)

\* order_by(Account.code), for codes written with digits: text order.
RECURSIVE TextLess(_, _)
TextLess(s, t) ==
    IF t = <<>> THEN FALSE
    ELSE IF s = <<>> THEN TRUE
    ELSE IF s[1] = t[1] THEN TextLess(Tail(s), Tail(t))
    ELSE DigitVal(s[1]) < DigitVal(t[1])

\* The ids of the accounts, in the order of their codes.
ByCode(accounts) ==
    LET sorted == CHOOSE q \in Perms(accounts) :
                     \A i, j \in 1..Len(q) : i < j => ~TextLess(q[j].code, q[i].code)
    IN  [i \in 1..Len(sorted) |-> sorted[i].id]

\* The rows a query of worker w's session reads.  The store leaves open
\* whether the queries of one session share a snapshot: a session that does
\* reads the rows committed when its first query ran, one that does not reads
\* the rows committed when each query runs.
Reads(w) == IF sess[w].snapshot THEN sess[w].seen ELSE db

\* accounts = db.query(Account).order_by(Account.code).all(); no account_id is
\* given, so there is no ledger query.
UI_Accounts(w) ==
    /\ sess[w].pc = "idle"
    /\ db.accounts # {}
    /\ \E snapshot \in BOOLEAN :
          Goto(w, [Idle EXCEPT !.pc = "ui_lines", !.snapshot = snapshot,
                               !.seen = IF snapshot THEN db ELSE EmptyDb,
                               !.todo = ByCode(db.accounts)])

\* lines = db.query(JournalLine).all() and the figures computed from them.  The
\* budget and investor queries that follow are taken in the same step: no
\* request here writes those tables.
UI_Lines(w) ==
    /\ sess[w].pc = "ui_lines"
    /\ LET r == accounting_ui(Reads(w), 0, <<>>)
       IN  IF r.status # 200
           THEN Respond(w, "accounting_ui", Reply(db, r.status, r.branch))
           ELSE Goto(w, [sess[w] EXCEPT !.pc = "ui_rows",
                                        !.figs = [r.view EXCEPT !.balance_rows = {}]])

\* for acc in accounts: sums = db.query(JournalLine).filter(account_id ==
\* acc.id).all(); the row of the next account.
UI_Row(w) ==
    /\ sess[w].pc = "ui_rows"
    /\ sess[w].todo # <<>>
    /\ LET d == Reads(w)
           acc == Head(sess[w].todo)
           row == BalanceRows([d EXCEPT !.accounts = {a \in @ : a.id = acc}])
       IN  Goto(w, [sess[w] EXCEPT !.todo = Tail(@), !.rows = @ \cup row])

\* return templates.TemplateResponse(...)
UI_Render(w) ==
    /\ sess[w].pc = "ui_rows"
    /\ sess[w].todo = <<>>
    /\ last' = [op |-> "accounting_ui", status |-> 200, branch |-> "rendered",
                id |-> 0, tags |-> {},
                view |-> [sess[w].figs EXCEPT !.balance_rows = sess[w].rows]]
    /\ sess' = [sess EXCEPT ![w] = Idle]
    /\ UNCHANGED <<db, fkEnforced>>

ReadJournalForms ==
    JournalForms({<<"2", "0", "2", "5", "-", "0", "1", "-", "1", "5">>},
                 {<<"P", "a", "g", "o">>},
                 { << <<"2", ",", "5">>, <<"2", ".", "5">> >>,
                   << <<"1">>, <<"2", ",", "5">> >> },
                 { <<1, 2>>, <<2, 1>> })

\* Accounts are created while no request is under way; one worker posts and
\* deletes entries while the other computes the page.
NextRead ==
    \/ CreateAccount(AccountForms)
    \/ CJE_Flush("w1", ReadJournalForms)
    \/ CJE_Commit("w1")
    \/ DJE_Get("w1")
    \/ DJE_Commit("w1")
    \/ UI_Accounts("w2")
    \/ UI_Lines("w2")
    \/ UI_Row("w2")
    \/ UI_Render("w2")

SpecRead == Init /\ [][NextRead]_vars

\* ACCOUNT_TYPES: the types the page offers
ACCOUNT_TYPES == {"asset", "liability", "equity", "income", "expense"}

\* Account forms with one code written two ways and a type the page does not
\* offer among them.
TypedAccountForms ==
    { [code |-> <<"1", "0", "0">>, name |-> <<"C", "a", "j", "a">>, type |-> "asset",
       scheme |-> "ES", is_cash |-> TRUE, is_equity |-> FALSE],
      [code |-> <<"1", "0", "0", " ">>, name |-> <<"B", "a", "n", "c", "o">>,
       type |-> "asset", scheme |-> "ES", is_cash |-> TRUE, is_equity |-> FALSE],
      [code |-> <<"7", "0", "0">>, name |-> <<"V", "e", "n", "t", "a", "s">>,
       type |-> "ventas", scheme |-> "ES", is_cash |-> FALSE, is_equity |-> FALSE] }

\* create_account up to its second return: strip, the blank check and the
\* query for an account with the same code
CA_Check(w, forms) ==
    /\ sess[w].pc = "idle"
    /\ \E f \in forms :
          IF BlankAccount(Strip(f.code), Strip(f.name))
          THEN Respond(w, "create_account", Reply(db, 303, "blank"))
          ELSE IF CodeTaken(db, Strip(f.code))
          THEN Respond(w, "create_account", Reply(db, 303, "duplicate"))
          ELSE Goto(w, [Idle EXCEPT !.pc = "ca_checked", !.acc = f])

\* acc = Account(...); db.add(acc); db.commit()
CA_Commit(w) ==
    /\ sess[w].pc = "ca_checked"
    /\ NextId(db.accounts) <= MaxAccounts
    /\ Respond(w, "create_account",
               Commit(db, [db EXCEPT !.accounts = @ \cup
                   {NewAccount(db, Strip(sess[w].acc.code), Strip(sess[w].acc.name),
                               sess[w].acc)}]))

\* Account creations and deletions of several workers, interleaved.
NextAccounts ==
    \E w \in Workers :
        \/ CA_Check(w, TypedAccountForms)
        \/ CA_Commit(w)
        \/ DA_Check(w)
        \/ DA_Flush(w)
        \/ DA_Commit(w)

SpecAccounts == Init /\ [][NextAccounts]_vars

\* One journal form per month from December 2024 to March 2025: the first
\* debits account 1 and credits account 2, the others debit 2 and credit 1.
MonthlyForms ==
    { [date_str |-> m[1], description |-> <<"P", "a", "g", "o">>,
       debit_account_id |-> m[3][1], debit_amount |-> m[2],
       credit_account_id |-> m[3][2], credit_amount |-> m[2]]
      : m \in { << <<"2", "0", "2", "4", "-", "1", "2", "-", "1", "5">>,
                   <<"5", "0", "0", "0">>, <<1, 2>> >>,
                << <<"2", "0", "2", "5", "-", "0", "1", "-", "1", "5">>,
                   <<"1", "0", "0", "0">>, <<2, 1>> >>,
                << <<"2", "0", "2", "5", "-", "0", "2", "-", "1", "5">>,
                   <<"1", "5", "0", "0">>, <<2, 1>> >>,
                << <<"2", "0", "2", "5", "-", "0", "3", "-", "1", "5">>,
                   <<"2", "0", "0", "0">>, <<2, 1>> >> } }

\* A cash account and an expense account, postings month by month, the page.
NextBurn ==
    \/ CreateAccount(AccountForms)
    \/ PostMonthly(MonthlyForms)
    \/ AccountingUiFor({0})

SpecBurn == Init /\ [][NextBurn]_vars

\* A budget for March 2025 and one for the whole of 2025.
ReportBudgetForms ==
    { [name |-> <<"Q", "1">>, year |-> 2025, month |-> mt,
       expense_target |-> <<"1", "8", "0", "0">>]
      : mt \in { <<"3">>, <<>> } }

\* Postings of 2000 in March 2025, January 2025 and March 2024.
ReportDateTexts ==
    { <<"2", "0", "2", "5", "-", "0", "3", "-", "1", "5">>,
      <<"2", "0", "2", "5", "-", "0", "1", "-", "1", "5">>,
      <<"2", "0", "2", "4", "-", "0", "3", "-", "1", "5">> }

\* A cash account and an expense account, postings, budgets, the page.
NextBudget ==
    \/ CreateAccount(AccountForms)
    \/ CreateJournalEntry(JournalForms(ReportDateTexts, {<<"P", "a", "g", "o">>},
                                       { << <<"2", "0", "0", "0">>, <<"2", "0", "0", "0">> >> },
                                       {<<2, 1>>}))
    \/ CreateBudget(ReportBudgetForms)
    \/ DeleteBudget
    \/ AccountingUiFor({0})

SpecBudget == Init /\ [][NextBudget]_vars

\* Investors with a percentage above, at and below zero, and fields the
\* handler refuses.
ReportInvestorForms ==
    { [name |-> nm, ownership_percent |-> pc, invested_amount |-> am, notes |-> <<>>]
      : nm \in { <<"A", "n", "a">>, <<" ">> },
        pc \in { <<"1", "0">>, <<"0">>, <<"-", "1", "0">>, <<"x">> },
        am \in { <<"1", "0", "0", "0">>, <<"5", "0", "0">> } }

\* Accounts, investors, the page.
NextInvestors ==
    \/ CreateAccount(AccountForms)
    \/ CreateInvestor(ReportInvestorForms)
    \/ DeleteInvestor
    \/ AccountingUiFor({0})

SpecInvestors == Init /\ [][NextInvestors]_vars

\* Accounts of the five types, among them a liability flagged is_cash, and an
\* asset and an income account flagged is_equity.
StatementAccountForms ==
    { [code |-> a[1], name |-> <<"N">>, type |-> a[2], scheme |-> "ES",
       is_cash |-> a[3], is_equity |-> a[4]]
      : a \in { << <<"1", "0", "0">>, "asset", TRUE, FALSE >>,
                << <<"1", "9", "0">>, "asset", FALSE, TRUE >>,
                << <<"4", "0", "0">>, "liability", TRUE, FALSE >>,
                << <<"5", "0", "0">>, "equity", FALSE, TRUE >>,
                << <<"6", "0", "0">>, "expense", FALSE, FALSE >>,
                << <<"7", "0", "0">>, "income", FALSE, FALSE >>,
                << <<"7", "9", "0">>, "income", FALSE, TRUE >> } }

\* Accounts of every type, postings between them, deletions, the page.
NextStatements ==
    \/ CreateAccount(StatementAccountForms)
    \/ DeleteAccount
    \/ CreateJournalEntry(JournalForms({<<"2", "0", "2", "5", "-", "0", "1", "-", "1", "5">>},
                                       {<<"P", "a", "g", "o">>},
                                       { << <<"2", ",", "5">>, <<"2", ".", "5">> >> },
                                       {<<1, 2>>, <<2, 1>>}))
    \/ DeleteJournalEntry
    \/ AccountingUiFor({0})

SpecStatements == Init /\ [][NextStatements]_vars

-----------------------------------------------------------------------------
(* Properties.                                                             *)

MutatingOps == {"create_account", "delete_account", "create_journal_entry",
                "delete_journal_entry", "create_budget", "delete_budget",
                "create_investor", "delete_investor"}

\* C1: every stored journal entry has equal debit and credit sums over its
\* lines, exactly, after any sequence of postings and deletions.
C1_EntriesBalanced ==
    \A e \in db.entries : total_debit(db, e.id) = total_credit(db, e.id)

\* An entry deletion has just been committed and an entry with a nonzero
\* debit total is stored.
C1_Witness ==
    /\ last.op = "delete_journal_entry" /\ last.branch = "committed"
    /\ \E e \in db.entries : total_debit(db, e.id) > 0

\* C2: deleting an existing account is refused exactly when some journal line
\* references it at the time of the call; refused, the account (and the whole
\* store) stays; otherwise exactly that account's row is removed.
C2_DeleteAccountIffUnused ==
    [][\A a \in Ids(db.accounts) :
         (last'.op = "delete_account" /\ last'.id = a) =>
            LET used == \E l \in db.lines : l.account_id = a
            IN  /\ (last'.branch = "has_lines") <=> used
                /\ used => db' = db
                /\ ~used => /\ last'.branch = "committed"
                            /\ db' = [db EXCEPT !.accounts = {x \in @ : x.id # a}]]_vars

\* A deletion of an account that lines reference has just been refused, and a
\* second account is stored.
C2_Witness ==
    /\ last.op = "delete_account" /\ last.branch = "has_lines"
    /\ \E l \in db.lines : l.account_id = last.id
    /\ Cardinality(db.accounts) = 2

\* C5: a mutating request that the handler refuses leaves every table as it
\* was before the request.
C5_RefusalLeavesStore ==
    [][(last'.op \in MutatingOps /\ last'.branch # "committed") => db' = db]_vars

\* A journal form has just been refused while entries, a budget and an
\* investor are stored.
C5_Witness ==
    /\ last.op = "create_journal_entry" /\ last.branch = "not_balanced"
    /\ db.entries # {} /\ db.budgets # {} /\ db.investors # {}

\* C6: deleting an existing entry removes the entry and exactly the lines it
\* owns in one commit; afterwards the ledger query of any account whose only
\* lines belonged to that entry has no rows.
C6_DeleteEntryCascades ==
    [][\A e \in Ids(db.entries) :
         (last'.op = "delete_journal_entry" /\ last'.id = e) =>
            /\ last'.branch = "committed"
            /\ db'.entries = {x \in db.entries : x.id # e}
            /\ db'.lines = {l \in db.lines : l.entry_id # e}
            /\ \A a \in Ids(db.accounts) :
                 (\A l \in db.lines : l.account_id = a => l.entry_id = e)
                   => \A q \in LedgerQuery(db', a) : LedgerLines(db', q, 0) = <<>>]_vars

\* An entry holding all the lines of some account has just been deleted while
\* another entry stays.
C6_Witness ==
    /\ last.op = "delete_journal_entry" /\ last.branch = "committed"
    /\ "sole_lines" \in last.tags
    /\ db.entries # {}

\* C7: for every account that has lines, the balance of its row in the balance
\* by account equals the running balance of the last row of its ledger,
\* whichever order the ledger query returns; an account whose totals are both
\* zero has no row, and its ledger ends at zero.
C7_BalanceIsLedgerFinal ==
    /\ \A a \in Ids(db.accounts) :
         (\E l \in db.lines : l.account_id = a) =>
            \A q \in LedgerQuery(db, a) :
               LET rows == LedgerLines(db, q, 0)
                   tb == {r \in BalanceRows(db) : r.account = a}
               IN  /\ rows # <<>>
                   /\ \A r \in tb : r.saldo = rows[Len(rows)].balance
                   /\ tb = {} => rows[Len(rows)].balance = 0
    /\ (last.op = "accounting_ui" /\ last.status = 200) =>
         \A r \in last.view.balance_rows :
            r.account = last.id =>
               /\ last.view.ledger_lines # <<>>
               /\ r.saldo = last.view.ledger_balance

\* The page has just shown a ledger of several rows for an account whose
\* balance row is not zero.
C7_Witness ==
    /\ last.op = "accounting_ui" /\ last.status = 200
    /\ Len(last.view.ledger_lines) >= 2
    /\ \E r \in last.view.balance_rows : r.account = last.id /\ r.saldo # 0

\* C8: two ledger requests for the same account with no write in between show
\* the same rows with the same running balances.
C8_LedgerRepeatable ==
    [][(/\ last.op = "accounting_ui" /\ last.status = 200
        /\ last'.op = "accounting_ui" /\ last'.status = 200
        /\ last'.id = last.id /\ db' = db)
       => last'.view.ledger_lines = last.view.ledger_lines]_vars

\* C9: a journal form naming an account id that no account has is refused and
\* nothing is stored.
C9_UnknownAccountRefused ==
    (last.op = "create_journal_entry" /\ "unknown_account" \in last.tags)
       => (last.status = 303 /\ last.branch # "committed")

\* C10: a journal form whose description is blank is refused and nothing is
\* stored, so no entry carries a description put in its place.
C10_BlankDescriptionRefused ==
    (last.op = "create_journal_entry" /\ "blank_description" \in last.tags)
       => last.branch # "committed"

\* C3: under any interleaving of journal postings, entry deletions and account
\* deletions, every stored line references an account that exists.
C3_LinesReferenceAccounts ==
    \A l \in db.lines : l.account_id \in Ids(db.accounts)

\* C4: in every committed state an entry is stored with both of its lines, and
\* every stored line belongs to a stored entry.
C4_EntryWithAllLines ==
    /\ \A e \in db.entries :
         /\ Cardinality({l \in db.lines : l.entry_id = e.id}) = 2
         /\ \E l \in db.lines : l.entry_id = e.id /\ l.debit > 0 /\ l.credit = 0
         /\ \E l \in db.lines : l.entry_id = e.id /\ l.credit > 0 /\ l.debit = 0
    /\ \A l \in db.lines : l.entry_id \in Ids(db.entries)

\* One worker has committed an entry while another has flushed an entry of its
\* own and not yet committed it.
C4_Witness ==
    /\ last.op = "create_journal_entry" /\ last.branch = "committed"
    /\ db.entries # {}
    /\ \E w \in Workers : sess[w].pc = "cje_flushed"

\* C11: no two stored accounts share a code, and a request to create an
\* account never ends in a failure of the store (IntegrityError): a code that
\* is taken is refused by the handler, also when two workers submit the same
\* new code at once.
C11_DuplicateCodeRefused ==
    /\ \A a, b \in db.accounts : a.code = b.code => a.id = b.id
    /\ last.op = "create_account" => last.branch \in {"committed", "blank", "duplicate"}

\* C12: every stored account has one of the five types.
C12_AccountTypesInEnum ==
    \A a \in db.accounts : a.type \in ACCOUNT_TYPES

\* The returns of the handlers that refuse a request.
DomainFailures == {"blank", "duplicate", "has_lines", "not_found",
                   "bad_amount", "not_balanced"}

\* C13: a mutating request never ends in an exception (a 500 response), and
\* the response to a refused request differs from the response to a request
\* that was carried out.
C13_FailuresAreTyped ==
    last.op \in MutatingOps =>
       /\ last.status # 500
       /\ last.branch \in DomainFailures => Response(last.status) # Response(303)

\* C14: deleting an account or an entry by an id that no stored row has is
\* refused as not found and leaves the store as it was.
C14_DeleteMissingNotFound ==
    [][/\ (last'.op = "delete_account" /\ last'.id \notin Ids(db.accounts))
            => (last'.branch = "not_found" /\ db' = db)
       /\ (last'.op = "delete_journal_entry" /\ last'.id \notin Ids(db.entries))
            => (last'.branch = "not_found" /\ db' = db)]_vars

\* The deletion of an entry id that no entry has was just refused while accounts
\* and another entry are stored.
C14_Witness ==
    /\ last.op = "delete_journal_entry" /\ last.branch = "not_found"
    /\ last.id \notin Ids(db.entries)
    /\ db.entries # {} /\ db.accounts # {}

\* C15: the ledger of an account lists all its lines by ascending (entry date,
\* entry id); the first running balance is debit - credit of the first row and
\* each next one adds debit - credit of its row, whatever the account's type.
\* After one posting of x debiting A and crediting another account B, the
\* ledger of A is one row with debit x and balance x and the ledger of B one
\* row with credit x and balance -x.
C15_LedgerOrderAndBalance ==
    /\ \A a \in Ids(db.accounts) : \A q \in LedgerQuery(db, a) :
          LET rows == LedgerLines(db, q, 0)
          IN  /\ Len(rows) = Len(q)
              /\ {q[i] : i \in 1..Len(q)} = {l \in db.lines : l.account_id = a}
              /\ Len(q) = Cardinality({l \in db.lines : l.account_id = a})
              /\ \A i \in 1..Len(q) :
                    /\ rows[i].debit = q[i].debit /\ rows[i].credit = q[i].credit
                    /\ rows[i].date = EntryOf(db, q[i]).date
                    /\ rows[i].balance = (IF i = 1 THEN 0 ELSE rows[i - 1].balance)
                                            + q[i].debit - q[i].credit
              /\ \A i \in 1..Len(q) - 1 :
                    LET e1 == EntryOf(db, q[i])
                        e2 == EntryOf(db, q[i + 1])
                    IN  DateLess(e1.date, e2.date) \/ (e1.date = e2.date /\ e1.id <= e2.id)
    /\ \A e \in db.entries : \A ld, lc \in LinesOf(db, e.id) :
          (/\ db.entries = {e}
           /\ ld.debit > 0 /\ lc.credit > 0 /\ ld.account_id # lc.account_id
           /\ {ld.account_id, lc.account_id} \subseteq Ids(db.accounts))
          => /\ \A q \in LedgerQuery(db, ld.account_id) :
                   /\ Len(q) = 1
                   /\ LedgerLines(db, q, 0)[1].debit = ld.debit
                   /\ LedgerLines(db, q, 0)[1].balance = ld.debit
             /\ \A q \in LedgerQuery(db, lc.account_id) :
                   /\ Len(q) = 1
                   /\ LedgerLines(db, q, 0)[1].credit = lc.credit
                   /\ LedgerLines(db, q, 0)[1].balance = 0 - lc.credit
    /\ (last.op = "accounting_ui" /\ last.status = 200 /\ last.id \in Ids(db.accounts))
          => \E q \in LedgerQuery(db, last.id) :
                last.view.ledger_lines = LedgerLines(db, q, 0)

\* The page has just shown a ledger whose first row belongs to the entry posted
\* later: its date is the earlier one.
C15_Witness ==
    /\ last.op = "accounting_ui" /\ last.status = 200
    /\ Len(last.view.ledger_lines) >= 2
    /\ \E e1, e2 \in db.entries :
          /\ e1.id < e2.id /\ DateLess(e2.date, e1.date)
          /\ last.view.ledger_lines[1].date = e2.date
          /\ last.view.ledger_lines[Len(last.view.ledger_lines)].date = e1.date

\* C20: a journal form whose date cannot be read is refused and nothing is
\* stored, so no entry carries a date put in its place.
C20_BadDateRefused ==
    (last.op = "create_journal_entry" /\ "bad_date" \in last.tags)
       => last.branch # "committed"

\* The figures of the page for the stored rows.
Figures == accounting_ui(db, 0, <<>>).view

RECURSIVE Gcd(_, _)
Gcd(a, b) == IF b = 0 THEN a ELSE Gcd(b, a % b)

\* A fraction in lowest terms.
Lowest(q) ==
    LET g == Gcd(IF q.num < 0 THEN 0 - q.num ELSE q.num, q.den)
    IN  [num |-> q.num \div g, den |-> q.den \div g]

\* C16: the burn rate is the net expense (debit - credit on expense accounts)
\* of the most recent months that have expense lines, at most 3 of them, by
\* (year, month) of the entry date, divided by the number of those months; it
\* is 0 when no month has expense lines.
C16_BurnRateRecentMonths ==
    ~StatementsRaise(db) =>
       LET exp == {l \in db.lines : AccountOf(db, l).type = "expense"}
           month(l) == <<EntryOf(db, l).date[1], EntryOf(db, l).date[2]>>
           populated == {month(l) : l \in exp}
           later(k) == {j \in populated : k[1] < j[1] \/ (k[1] = j[1] /\ k[2] < j[2])}
           recent == {k \in populated : Cardinality(later(k)) < 3}
           total == SumDebit({l \in exp : month(l) \in recent})
                      - SumCredit({l \in exp : month(l) \in recent})
       IN  /\ Figures.burn_rate.den > 0
           /\ populated = {} => Figures.burn_rate.num = 0
           /\ populated # {} =>
                 /\ Cardinality(recent) = (IF Cardinality(populated) < 3
                                           THEN Cardinality(populated) ELSE 3)
                 /\ Figures.burn_rate.num * Cardinality(recent)
                       = total * Figures.burn_rate.den
           /\ (last.op = "accounting_ui" /\ last.status = 200)
                 => last.view.burn_rate = Figures.burn_rate

\* The page has just shown a burn rate of 1500 with four months of expenses
\* stored: 1000, 1500 and 2000 in the last three.
C16_Witness ==
    /\ last.op = "accounting_ui" /\ last.status = 200
    /\ Cardinality({MonthKey(db, l) : l \in LinesOfType(db, "expense")}) >= 4
    /\ last.view.burn_rate.num = 1500 * Pow10(DecScale) * last.view.burn_rate.den

\* C17: the runway is defined exactly when the burn rate is above zero, and is
\* then the cash balance divided by the burn rate, negative when the cash
\* balance is negative; otherwise it is absent, and the page is rendered.
C17_RunwayIffBurnPositive ==
    ~StatementsRaise(db) =>
       LET cash == SumDebit({l \in db.lines : AccountOf(db, l).type = "asset"
                                               /\ AccountOf(db, l).is_cash})
                   - SumCredit({l \in db.lines : AccountOf(db, l).type = "asset"
                                                  /\ AccountOf(db, l).is_cash})
           burn == Figures.burn_rate
           runway == Figures.runway_months
       IN  /\ runway.defined <=> burn.num > 0
           /\ runway.defined =>
                 /\ runway.den > 0
                 /\ Lowest(runway) = Lowest(Fraction(cash * burn.den, burn.num))
                 /\ cash < 0 => runway.num < 0
           /\ ~runway.defined => runway = NoValue
           /\ accounting_ui(db, 0, <<>>).status = 200
           /\ (last.op = "accounting_ui" /\ last.status = 200)
                 => last.view.runway_months = runway

\* The page has just shown a negative runway: the cash balance is negative
\* and the burn rate is above zero.
C17_Witness ==
    /\ last.op = "accounting_ui" /\ last.status = 200
    /\ last.view.cash_balance < 0
    /\ last.view.burn_rate.num > 0
    /\ last.view.runway_months.defined /\ last.view.runway_months.num < 0

\* C19: for every budget the page reports as actual expense the sum of
\* debit - credit over the lines on expense accounts whose entry is dated in
\* the budget's year and, when the budget has a month, in that month, and as
\* variance the actual expense minus the budget's target.
C19_BudgetVariance ==
    ~StatementsRaise(db) =>
       /\ Cardinality(Figures.budgets_info) = Cardinality(db.budgets)
       /\ \A b \in db.budgets :
             LET counted == {l \in db.lines :
                               /\ AccountOf(db, l).type = "expense"
                               /\ EntryOf(db, l).date[1] = b.year
                               /\ ~b.month.none => EntryOf(db, l).date[2] = b.month.v}
                 actual == SumDebit(counted) - SumCredit(counted)
             IN  \E r \in Figures.budgets_info :
                    /\ r.budget = b.id
                    /\ r.actual_expense = actual
                    /\ r.variance = actual - b.expense_target
       /\ (last.op = "accounting_ui" /\ last.status = 200)
             => last.view.budgets_info = Figures.budgets_info

\* The page has just shown a variance of +200 for a budget of 1800 for March
\* 2025, with 2000 of expense in March and further expense in another month.
C19_Witness ==
    /\ last.op = "accounting_ui" /\ last.status = 200
    /\ \E b \in db.budgets :
          /\ ~b.month.none /\ b.month.v = 3 /\ b.year = 2025
          /\ \E r \in last.view.budgets_info :
                /\ r.budget = b.id
                /\ r.actual_expense = 2000 * Pow10(DecScale)
                /\ r.variance = 200 * Pow10(DecScale)
    /\ \E l \in LinesOfType(db, "expense") : EntryOf(db, l).date[2] # 3

\* C18: for every stored investor the page reports the implied valuation
\* invested amount / ownership percent * 100, and reports none exactly when the
\* ownership percent is zero.
C18_ImpliedValuation ==
    ~StatementsRaise(db) =>
       \A inv \in db.investors :
          \E r \in Figures.investors_info :
             /\ r.investor = inv.id
             /\ r.implied_valuation.defined <=> inv.ownership_percent # 0
             /\ r.implied_valuation.defined =>
                   Lowest(r.implied_valuation)
                     = Lowest(Fraction(inv.invested_amount * 100, inv.ownership_percent))

\* C21: every stored line has debit >= 0 and credit >= 0, and a journal form
\* with existing accounts, a description, a date and equal amounts that are not
\* negative is accepted, amounts of zero included.
C21_EqualNonNegativeAccepted ==
    /\ \A l \in db.lines : l.debit >= 0 /\ l.credit >= 0
    /\ (last.op = "create_journal_entry"
         /\ last.tags = {"equal_nonnegative_amounts"})
          => last.branch = "committed"

RECURSIVE SumDebitTotal(_)
SumDebitTotal(rows) == IF rows = {} THEN 0
                       ELSE LET r == CHOOSE x \in rows : TRUE
                            IN  r.debit_total + SumDebitTotal(rows \ {r})

RECURSIVE SumCreditTotal(_)
SumCreditTotal(rows) == IF rows = {} THEN 0
                        ELSE LET r == CHOOSE x \in rows : TRUE
                             IN  r.credit_total + SumCreditTotal(rows \ {r})

\* C22: the balance by account has a row for exactly the accounts that have at
\* least one line, with the debit total, the credit total and their difference
\* over that account's lines.
C22_RowPerAccountWithLines ==
    ~StatementsRaise(db) =>
       /\ {r.account : r \in Figures.balance_rows}
             = {a \in Ids(db.accounts) : \E l \in db.lines : l.account_id = a}
       /\ \A r \in Figures.balance_rows :
             /\ r.debit_total = SumDebit({l \in db.lines : l.account_id = r.account})
             /\ r.credit_total = SumCredit({l \in db.lines : l.account_id = r.account})
             /\ r.saldo = r.debit_total - r.credit_total
       /\ (last.op = "accounting_ui" /\ last.status = 200)
             => last.view.balance_rows = Figures.balance_rows

\* C28: every stored entry owns exactly two lines, one with debit > 0 and no
\* credit, one with credit > 0 and no debit, of the same amount; no stored line
\* has both a debit and a credit.
C28_TwoLinesOneAmount ==
    /\ \A e \in db.entries :
          /\ Cardinality(LinesOf(db, e.id)) = 2
          /\ \E ld, lc \in LinesOf(db, e.id) :
                /\ ld.debit > 0 /\ ld.credit = 0
                /\ lc.credit > 0 /\ lc.debit = 0
                /\ ld.debit = lc.credit
    /\ \A l \in db.lines : ~(l.debit # 0 /\ l.credit # 0)

\* C30: the debit totals of the rows of the balance by account add up to the
\* same as their credit totals, so the balances of the rows add up to zero.
C30_TrialBalanceBalanced ==
    /\ ~StatementsRaise(db) =>
          SumDebitTotal(Figures.balance_rows) = SumCreditTotal(Figures.balance_rows)
    /\ (last.op = "accounting_ui" /\ last.status = 200) =>
          /\ SumDebitTotal(last.view.balance_rows) = SumCreditTotal(last.view.balance_rows)
          /\ last.view.balance_rows = Figures.balance_rows

\* The page has just shown rows for two accounts with balances that are not
\* zero, after an entry was deleted and with an entry stored.
C30_Witness ==
    /\ last.op = "accounting_ui" /\ last.status = 200
    /\ Cardinality({r \in last.view.balance_rows : r.saldo # 0}) = 2
    /\ \E e \in db.entries : e.id > 1
    /\ Cardinality(db.entries) = 1

\* C23: the page reports as total income the sum of credit - debit over the
\* lines on income accounts, as total expense the sum of debit - credit over
\* the lines on expense accounts, and as net income their difference, over the
\* lines stored when the page is requested.
C23_IncomeStatement ==
    ~StatementsRaise(db) =>
       LET inc == {l \in db.lines : AccountOf(db, l).type = "income"}
           exp == {l \in db.lines : AccountOf(db, l).type = "expense"}
       IN  /\ Figures.total_income = SumCredit(inc) - SumDebit(inc)
           /\ Figures.total_expense = SumDebit(exp) - SumCredit(exp)
           /\ Figures.net_income = Figures.total_income - Figures.total_expense
           /\ (last.op = "accounting_ui" /\ last.status = 200) =>
                 /\ last.view.total_income = Figures.total_income
                 /\ last.view.total_expense = Figures.total_expense
                 /\ last.view.net_income = Figures.net_income

\* The page has just shown income and expense, after the first entry was
\* deleted and another was posted.
C23_Witness ==
    /\ last.op = "accounting_ui" /\ last.status = 200
    /\ last.view.total_income > 0 /\ last.view.total_expense > 0
    /\ db.entries # {} /\ 1 \notin Ids(db.entries)

\* C24: the equity total is the sum of credit - debit over the lines of every
\* account of type equity or flagged is_equity, whatever its type.
C24_EquityTotal ==
    ~StatementsRaise(db) =>
       LET eq == {l \in db.lines : AccountOf(db, l).type = "equity"
                                    \/ AccountOf(db, l).is_equity}
       IN  Figures.equity_total = SumCredit(eq) - SumDebit(eq)

\* C25: the assets total is the sum of debit - credit over the lines of asset
\* accounts, the liabilities total the sum of credit - debit over the lines of
\* liability accounts, and the cash balance the sum of debit - credit over the
\* lines of the asset accounts flagged is_cash and of no other account.
C25_BalanceSheet ==
    ~StatementsRaise(db) =>
       LET assets == {l \in db.lines : AccountOf(db, l).type = "asset"}
           liabilities == {l \in db.lines : AccountOf(db, l).type = "liability"}
           cash == {l \in assets : AccountOf(db, l).is_cash}
       IN  /\ Figures.assets_total = SumDebit(assets) - SumCredit(assets)
           /\ Figures.liabilities_total = SumCredit(liabilities) - SumDebit(liabilities)
           /\ Figures.cash_balance = SumDebit(cash) - SumCredit(cash)
           /\ (last.op = "accounting_ui" /\ last.status = 200) =>
                 /\ last.view.assets_total = Figures.assets_total
                 /\ last.view.liabilities_total = Figures.liabilities_total
                 /\ last.view.cash_balance = Figures.cash_balance

\* The page has just shown a cash balance while a liability account flagged
\* is_cash has lines.
C25_Witness ==
    /\ last.op = "accounting_ui" /\ last.status = 200
    /\ last.view.cash_balance # 0 /\ last.view.liabilities_total # 0
    /\ \E l \in db.lines : /\ AccountOf(db, l).type = "liability"
                             /\ AccountOf(db, l).is_cash

\* C29: when every account has one of the five types and is_equity is set on
\* equity accounts only, assets total = liabilities total + equity total +
\* net income.
C29_AccountingIdentity ==
    (/\ ~StatementsRaise(db)
     /\ \A a \in db.accounts : /\ a.type \in ACCOUNT_TYPES
                                /\ a.is_equity => a.type = "equity")
    => /\ Figures.assets_total
            = Figures.liabilities_total + Figures.equity_total + Figures.net_income
       /\ (last.op = "accounting_ui" /\ last.status = 200) =>
             last.view.assets_total
               = last.view.liabilities_total + last.view.equity_total
                   + last.view.net_income

\* The page has just shown a liabilities total and a net income that are not
\* zero, for accounts of the five types with is_equity on equity accounts only.
C29_Witness ==
    /\ last.op = "accounting_ui" /\ last.status = 200
    /\ \A a \in db.accounts : /\ a.type \in ACCOUNT_TYPES
                               /\ a.is_equity => a.type = "equity"
    /\ last.view.liabilities_total # 0 /\ last.view.net_income # 0

\* C26: every stored investor has ownership_percent within [0, 100] and
\* invested_amount >= 0.
C26_InvestorRanges ==
    \A i \in db.investors :
       /\ 0 <= i.ownership_percent
       /\ i.ownership_percent <= 100 * Pow10(DecScale)
       /\ i.invested_amount >= 0

\* C27: the figures of one read of the page come from one set of committed
\* entries, each with both its lines: the debit totals of its balance rows add
\* up to their credit totals, and the rows of the asset accounts add up to the
\* assets total of the same read.
C27_ReadIsOneSnapshot ==
    (last.op = "accounting_ui" /\ last.status = 200) =>
       /\ SumDebitTotal(last.view.balance_rows) = SumCreditTotal(last.view.balance_rows)
       /\ LET assets == {r \in last.view.balance_rows :
                            \E a \in db.accounts : a.id = r.account /\ a.type = "asset"}
          IN  SumDebitTotal(assets) - SumCreditTotal(assets) = last.view.assets_total

=============================================================================
